---- MODULE Spec2Model ----
(***************************************************************************)
(* Model of the online-learning backend of src/index.js (the second,       *)
(* complete server of the file, lines 124-310): the startup connection,    *)
(* the three credential handlers over the users collection and the four    *)
(* catalog handlers over the courses collection.                           *)
(*                                                                         *)
(* A handler is an async function: it runs to its first await, and each    *)
(* await (a store call, bcrypt, the image host) is a point where other     *)
(* handlers run.  Each action below is the code between two awaits.        *)
(***************************************************************************)
EXTENDS Integers, Sequences, FiniteSets

VARIABLES
    runPc,              \* position of run(): "connect" or "done"
    usersCollection,    \* the handle of line 147: "undefined" or "collection"
    coursesCollection,  \* the handle of line 148: "undefined" or "collection"
    storeReachable,     \* whether the MongoDB deployment answers
    users,              \* documents of the users collection, in insertion order
    courses,            \* documents of the courses collection, in insertion order
    nextId,             \* the next _id the store assigns to a course
    imageCalls,         \* number of requests the image host has received
    pc,                 \* per request slot: position of its handler
    req,                \* per request slot: the request (body, params, query)
    loc,                \* per request slot: the handler's local variables
    resp,               \* per request slot: the response sent
    pre                 \* per request slot: the users collection as it was when
                        \* the handler issued its first store call (history)

vars == <<runPc, usersCollection, coursesCollection, storeReachable, users,
          courses, nextId, imageCalls, pc, req, loc, resp, pre>>

storeVars == <<runPc, usersCollection, coursesCollection, storeReachable>>
userVars == <<users>>
courseVars == <<courses, nextId, imageCalls>>

----------------------------------------------------------------------------
(* Bounds of the model *)

NumSlots == 2       \* requests that can be in flight at once
MaxUploads == 2     \* images the host ever receives, so courses ever created

Slots == 1..NumSlots

----------------------------------------------------------------------------
(* JavaScript values of request bodies *)

Undefined == [t |-> "undefined"]
Obj == [t |-> "object"]
Str(s) == [t |-> "string", v |-> s]
Num(n) == [t |-> "number", v |-> n]

Upper == {"A","B","C","D","E","F","G","H","I","J","K","L","M",
          "N","O","P","Q","R","S","T","U","V","W","X","Y","Z"}
Lower == {"a","b","c","d","e","f","g","h","i","j","k","l","m",
          "n","o","p","q","r","s","t","u","v","w","x","y","z"}

\* String(x), the coercion RegExp.prototype.test applies to its argument
JsString(x) ==
    CASE x.t = "string" -> x.v
      [] x.t = "undefined" -> <<"u","n","d","e","f","i","n","e","d">>
      [] x.t = "object" ->
            <<"[","o","b","j","e","c","t"," ","O","b","j","e","c","t","]">>

\* /[A-Z]/.test(x) and /[a-z]/.test(x)
TestUpper(x) == \E i \in 1..Len(JsString(x)) : JsString(x)[i] \in Upper
TestLower(x) == \E i \in 1..Len(JsString(x)) : JsString(x)[i] \in Lower

\* x.length < 6 where it is evaluated: a string has a length; on an object the
\* length is undefined and undefined < 6 is false
LengthBelowSix(x) == x.t = "string" /\ Len(x.v) < 6

Emails == {"ann@x.org", "bob@x.org"}
\* the one email the concurrent requests of SpecAuth contend for
Contended == {"ann@x.org"}
Names == {"N"}
Photos == {"p.png"}

PwGood1 == Str(<<"A","b","c","d","e","f">>)
PwGood2 == Str(<<"Q","w","e","r","t","y","1">>)
PwNoUpper == Str(<<"a","b","c","d","e","f">>)
PwNoLower == Str(<<"A","B","C","D","E","F">>)
PwShort == Str(<<"A","b","1">>)

RegisterPasswords ==
    {PwGood1, PwGood2, PwNoUpper, PwNoLower, PwShort, Undefined, Obj}
LoginPasswords == {PwGood1, PwGood2, Undefined}

----------------------------------------------------------------------------
(* bcryptjs and jsonwebtoken *)

Salts == {"s1", "s2"}

\* bcrypt.hash(password, 10): rejects unless the password is a string
HashThrows(password) == password.t # "string"
Hash(password, salt) ==
    [alg |-> "bcrypt", cost |-> 10, salt |-> salt, of |-> password.v]

\* bcrypt.compare(password, hash): rejects unless both are strings; a user
\* document without a password field hands it undefined
HasPassword(user) == "password" \in DOMAIN user
CompareThrows(password, user) == password.t # "string" \/ ~HasPassword(user)
Compare(password, user) == user.password.of = password.v

\* jwt.sign({ email }, secret, { expiresIn: "7d" })
NoToken == [payload |-> "none"]
Sign(email) == [payload |-> [email |-> email], expiresIn |-> "7d"]

----------------------------------------------------------------------------
(* Responses *)

NoReq == [op |-> "none"]
NoLoc == [at |-> "none"]
NoResp == [status |-> 0]

Reply(status, message) == [status |-> status, message |-> message, token |-> NoToken]
ReplyToken(status, message, email) ==
    [status |-> status, message |-> message, token |-> Sign(email)]
\* mutant of ServerError: the catch block answers with the wrong status
ServerErrorAsBadRequest == Reply(400, "Server error")
ServerError == Reply(500, "Server error")

\* the slot p ends its handler with response r
Send(p, r) ==
    /\ pc' = [pc EXCEPT ![p] = "done"]
    /\ resp' = [resp EXCEPT ![p] = r]
    /\ loc' = [loc EXCEPT ![p] = NoLoc]

\* the slot p suspends at the await named at, with locals l
Await(p, at, l) ==
    /\ pc' = [pc EXCEPT ![p] = at]
    /\ loc' = [loc EXCEPT ![p] = l]
    /\ UNCHANGED resp

\* the slot p receives the request r; before is the users collection when the
\* handler gets as far as a store call in its first run, and empty otherwise
Receive(p, r, before) ==
    /\ pc[p] = "idle"
    /\ req' = [req EXCEPT ![p] = r]
    /\ pre' = [pre EXCEPT ![p] = before]

\* the client has read the response; the slot is free again
Finish(p) ==
    /\ pc[p] = "done"
    /\ pc' = [pc EXCEPT ![p] = "idle"]
    /\ req' = [req EXCEPT ![p] = NoReq]
    /\ resp' = [resp EXCEPT ![p] = NoResp]
    /\ pre' = [pre EXCEPT ![p] = <<>>]
    /\ UNCHANGED <<loc, storeVars, userVars, courseVars>>

----------------------------------------------------------------------------
(* The store *)

\* a call on the driver is answered only when the deployment is reachable
StoreAnswers == storeReachable

\* mutant of Matches: the lookup compares the wrong field of the documents
MatchesByName(email) == {i \in 1..Len(users) : users[i].name = email}

\* collection.findOne({ email }): the first matching document or null
Matches(email) == {i \in 1..Len(users) : users[i].email = email}
HasUser(email) == Matches(email) # {}
FindOne(email) ==
    users[CHOOSE i \in Matches(email) : \A j \in Matches(email) : i <= j]

\* run(): connect, then assign both handles; a failed connect is logged
RunConnected ==
    /\ runPc = "connect"
    /\ storeReachable
    /\ runPc' = "done"
    /\ usersCollection' = "collection"
    /\ coursesCollection' = "collection"
    /\ UNCHANGED <<storeReachable, userVars, courseVars, pc, req, loc, resp, pre>>

RunFailed ==
    /\ runPc = "connect"
    /\ ~storeReachable
    /\ runPc' = "done"
    /\ UNCHANGED <<usersCollection, coursesCollection, storeReachable,
                   userVars, courseVars, pc, req, loc, resp, pre>>

\* the environment: the deployment goes away and comes back
StoreLost ==
    /\ storeReachable
    /\ storeReachable' = FALSE
    /\ UNCHANGED <<runPc, usersCollection, coursesCollection,
                   userVars, courseVars, pc, req, loc, resp, pre>>

StoreBack ==
    /\ ~storeReachable
    /\ storeReachable' = TRUE
    /\ UNCHANGED <<runPc, usersCollection, coursesCollection,
                   userVars, courseVars, pc, req, loc, resp, pre>>

----------------------------------------------------------------------------
(* POST /register *)

\* the three policy checks, in order; "ok" when all pass
PasswordPolicy(password) ==
    IF ~TestUpper(password)
    THEN "Password must include at least one uppercase letter."
    ELSE IF ~TestLower(password)
    THEN "Password must include at least one lowercase letter."
    ELSE IF LengthBelowSix(password)
    THEN "Password must be at least 6 characters long."
    ELSE "ok"

RegisterStart(p, emails) ==
    \E name \in Names, email \in emails, photoURL \in Photos,
       password \in RegisterPasswords :
        /\ Receive(p, [op |-> "register", name |-> name, email |-> email,
                       photoURL |-> photoURL, password |-> password],
                   IF PasswordPolicy(password) = "ok" /\ usersCollection # "undefined"
                   THEN users ELSE <<>>)
        /\ IF PasswordPolicy(password) # "ok"
           THEN Send(p, Reply(400, PasswordPolicy(password)))
           ELSE IF usersCollection = "undefined"
           THEN Send(p, ServerError)
           ELSE Await(p, "register_findOne", NoLoc)
        /\ UNCHANGED <<storeVars, userVars, courseVars>>

\* findOne answers; on null the handler goes on to bcrypt.hash, which works on
\* the handler's locals alone, and then issues insertOne
RegisterFindOne(p) ==
    /\ pc[p] = "register_findOne"
    /\ IF ~StoreAnswers
       THEN Send(p, ServerError)
       ELSE IF HasUser(req[p].email)
       THEN Send(p, Reply(400, "User already exists. Please log in."))
       ELSE IF HashThrows(req[p].password)
       THEN Send(p, ServerError)
       ELSE \E salt \in Salts :
              Await(p, "register_insertOne",
                    [hashedPassword |-> Hash(req[p].password, salt)])
    /\ UNCHANGED <<req, pre, storeVars, userVars, courseVars>>

NewUser(r, hashedPassword) ==
    [name |-> r.name, email |-> r.email, photoURL |-> r.photoURL,
     password |-> hashedPassword]

RegisterInsertOne(p) ==
    /\ pc[p] = "register_insertOne"
    /\ IF ~StoreAnswers
       THEN /\ Send(p, ServerError)
            /\ UNCHANGED users
       ELSE /\ users' = Append(users, NewUser(req[p], loc[p].hashedPassword))
            /\ Send(p, ReplyToken(201, "Registration successful!", req[p].email))
    /\ UNCHANGED <<req, pre, storeVars, courseVars>>

----------------------------------------------------------------------------
(* POST /login *)

LoginStart(p, emails) ==
    \E email \in emails, password \in LoginPasswords :
        /\ Receive(p, [op |-> "login", email |-> email, password |-> password],
                   IF usersCollection # "undefined" THEN users ELSE <<>>)
        /\ IF usersCollection = "undefined"
           THEN Send(p, ServerError)
           ELSE Await(p, "login_findOne", NoLoc)
        /\ UNCHANGED <<storeVars, userVars, courseVars>>

\* findOne answers; on a document the handler goes on to bcrypt.compare, which
\* works on the handler's locals alone, and responds
LoginFindOne(p) ==
    /\ pc[p] = "login_findOne"
    /\ IF ~StoreAnswers
       THEN Send(p, ServerError)
       ELSE IF ~HasUser(req[p].email)
       THEN Send(p, Reply(400, "No user found with this email."))
       ELSE IF CompareThrows(req[p].password, FindOne(req[p].email))
       THEN Send(p, ServerError)
       ELSE IF ~Compare(req[p].password, FindOne(req[p].email))
       THEN Send(p, Reply(400, "Incorrect password."))
       ELSE Send(p, ReplyToken(200, "Login successful!", req[p].email))
    /\ UNCHANGED <<req, pre, storeVars, userVars, courseVars>>

----------------------------------------------------------------------------
(* POST /google-login *)

\* mutant of GoogleUser: the provisioned document is not marked
GoogleUserUnmarked(r) ==
    [name |-> r.name, email |-> r.email, photoURL |-> r.photoURL]

GoogleUser(r) ==
    [name |-> r.name, email |-> r.email, photoURL |-> r.photoURL,
     fromGoogle |-> TRUE]

GoogleLoginStart(p, emails) ==
    \E name \in Names, email \in emails, photoURL \in Photos :
        /\ Receive(p, [op |-> "googleLogin", name |-> name, email |-> email,
                       photoURL |-> photoURL],
                   IF usersCollection # "undefined" THEN users ELSE <<>>)
        /\ IF usersCollection = "undefined"
           THEN Send(p, ServerError)
           ELSE Await(p, "google_findOne", NoLoc)
        /\ UNCHANGED <<storeVars, userVars, courseVars>>

GoogleLoginFindOne(p) ==
    /\ pc[p] = "google_findOne"
    /\ IF ~StoreAnswers
       THEN Send(p, ServerError)
       ELSE IF HasUser(req[p].email)
       THEN Send(p, ReplyToken(200, "Google login successful!", req[p].email))
       ELSE Await(p, "google_insertOne", NoLoc)
    /\ UNCHANGED <<req, pre, storeVars, userVars, courseVars>>

GoogleLoginInsertOne(p) ==
    /\ pc[p] = "google_insertOne"
    /\ IF ~StoreAnswers
       THEN /\ Send(p, ServerError)
            /\ UNCHANGED users
       ELSE /\ users' = Append(users, GoogleUser(req[p]))
            /\ Send(p, ReplyToken(200, "Google login successful!", req[p].email))
    /\ UNCHANGED <<req, pre, storeVars, courseVars>>

----------------------------------------------------------------------------
(* Course documents and catalog requests *)

Required == {"title", "description", "category", "price", "instructor",
             "imageBase64"}
Categories == {"math", "art"}

\* body.f of a parsed JSON body: undefined when the field is absent
Field(body, f) == IF f \in DOMAIN body THEN body[f] ELSE Undefined

\* !x is false for these
Truthy(x) ==
    CASE x.t = "undefined" -> FALSE
      [] x.t = "string" -> x.v # ""
      [] x.t = "number" -> x.v # 0
      [] x.t = "object" -> TRUE

Without(body, f) == [g \in DOMAIN body \ {f} |-> body[g]]

FullBody(category) ==
    [title |-> Str("T"), description |-> Str("D"), category |-> Str(category),
     price |-> Num(10), instructor |-> Str("I"), imageBase64 |-> Str("b64")]

CreateBodies ==
    {FullBody(c) : c \in Categories}
      \cup {Without(FullBody("math"), f) : f \in Required}
      \cup {[FullBody("math") EXCEPT !.price = Num(0)]}

\* no field; one field replaced and one the document does not have yet
UpdateBodies == {<<>>, [price |-> Num(20), level |-> Str("hard")]}

\* req.query of GET /courses, GET /courses?category= and ?category=math
Queries == {<<>>, [category |-> Str("")], [category |-> Str("math")]}

\* req.params.id: the hex string of a store identifier, or no such string
IdParams == {[hex |-> TRUE, n |-> k] : k \in 1..MaxUploads}
              \cup {[hex |-> FALSE, n |-> 0]}

\* new ObjectId(id) throws on a string that is no identifier
ObjectIdThrows(id) == ~id.hex

ReplyCourses(list) == [status |-> 200, body |-> list]
ReplyCourse(status, message, course) ==
    [status |-> status, message |-> message, course |-> course]

----------------------------------------------------------------------------
(* GET /courses *)

\* mutant of ListQuery: the filter is used as supplied, empty or not
ListQueryAsSupplied(query) ==
    IF "category" \in DOMAIN query
    THEN [category |-> query.category]
    ELSE <<>>

\* const query = category ? { category } : {}
ListQuery(query) ==
    IF Truthy(Field(query, "category"))
    THEN [category |-> query.category]
    ELSE <<>>

\* find(query).toArray(): the documents equal to the query on its fields
Find(query) ==
    SelectSeq(courses,
              LAMBDA c : \A f \in DOMAIN query : Field(c, f) = query[f])

ListCoursesStart(p) ==
    \E query \in Queries :
        /\ Receive(p, [op |-> "listCourses", query |-> query], <<>>)
        /\ IF coursesCollection = "undefined"
           THEN Send(p, ServerError)
           ELSE Await(p, "list_find", [query |-> ListQuery(query)])
        /\ UNCHANGED <<storeVars, userVars, courseVars>>

ListCoursesFind(p) ==
    /\ pc[p] = "list_find"
    /\ IF ~StoreAnswers
       THEN Send(p, ServerError)
       ELSE Send(p, ReplyCourses(Find(loc[p].query)))
    /\ UNCHANGED <<req, pre, storeVars, userVars, courseVars>>

----------------------------------------------------------------------------
(* POST /courses *)

\* mutant of Validates: the check leaves out price
ValidatesWithoutPrice(body) ==
    \A f \in Required \ {"price"} : Truthy(Field(body, f))

\* the six-field check of line 256
Validates(body) == \A f \in Required : Truthy(Field(body, f))

NewCourse(body, imageUrl) ==
    [title |-> body.title, description |-> body.description,
     category |-> body.category, price |-> body.price,
     instructor |-> body.instructor, image |-> imageUrl,
     createdAt |-> [t |-> "date"]]

\* insertOne gives the document the next identifier
WithId(course, id) ==
    [f \in DOMAIN course \cup {"_id"} |->
        IF f = "_id" THEN id ELSE course[f]]

\* validation, then uploadToImgBB posts the image to the host
CreateCourseStart(p) ==
    \E body \in CreateBodies :
        /\ Receive(p, [op |-> "createCourse", body |-> body], <<>>)
        /\ IF ~Validates(body)
           THEN /\ Send(p, Reply(400, "All fields are required!"))
                /\ UNCHANGED imageCalls
           ELSE /\ imageCalls < MaxUploads
                /\ imageCalls' = imageCalls + 1
                /\ Await(p, "create_upload", NoLoc)
        /\ UNCHANGED <<storeVars, userVars, courses, nextId>>

\* the host answers with the hosted URL; the handler goes on to insertOne
CreateCourseUploaded(p) ==
    /\ pc[p] = "create_upload"
    /\ IF coursesCollection = "undefined"
       THEN Send(p, ServerError)
       ELSE Await(p, "create_insertOne",
                  [newCourse |-> NewCourse(req[p].body, Str("url"))])
    /\ UNCHANGED <<req, pre, storeVars, userVars, courseVars>>

\* the host fails or cannot be reached: axios.post rejects
CreateCourseUploadFailed(p) ==
    /\ pc[p] = "create_upload"
    /\ Send(p, ServerError)
    /\ UNCHANGED <<req, pre, storeVars, userVars, courseVars>>

CreateCourseInsertOne(p) ==
    /\ pc[p] = "create_insertOne"
    /\ IF ~StoreAnswers
       THEN /\ Send(p, ServerError)
            /\ UNCHANGED <<courses, nextId>>
       ELSE /\ courses' = Append(courses, WithId(loc[p].newCourse, nextId))
            /\ nextId' = nextId + 1
            /\ Send(p, ReplyCourse(201, "Course added successfully!",
                                   WithId(loc[p].newCourse, nextId)))
    /\ UNCHANGED <<req, pre, storeVars, userVars, imageCalls>>

----------------------------------------------------------------------------
(* PUT /courses/:id *)

\* mutant of SetFields: the body replaces the document, as replaceOne would
ReplaceFields(course, body) ==
    [f \in DOMAIN body \cup {"_id"} |->
        IF f \in DOMAIN body THEN body[f] ELSE course[f]]

\* { $set: body } on one document: the fields of body replace or extend it
SetFields(course, body) ==
    [f \in DOMAIN course \cup DOMAIN body |->
        IF f \in DOMAIN body THEN body[f] ELSE course[f]]

\* updateOne({ _id }, { $set: body }): identifiers are unique in a collection
UpdateOne(id, body) ==
    [i \in 1..Len(courses) |->
        IF courses[i]._id = id THEN SetFields(courses[i], body) ELSE courses[i]]

UpdateCourseStart(p) ==
    \E id \in IdParams, body \in UpdateBodies :
        /\ Receive(p, [op |-> "updateCourse", id |-> id, body |-> body], <<>>)
        /\ IF ObjectIdThrows(id) \/ coursesCollection = "undefined"
           THEN Send(p, ServerError)
           ELSE Await(p, "update_updateOne", NoLoc)
        /\ UNCHANGED <<storeVars, userVars, courseVars>>

UpdateCourseUpdateOne(p) ==
    /\ pc[p] = "update_updateOne"
    /\ IF ~StoreAnswers
       THEN /\ Send(p, ServerError)
            /\ UNCHANGED courses
       ELSE /\ courses' = UpdateOne(req[p].id.n, req[p].body)
            /\ Send(p, Reply(200, "Course updated successfully!"))
    /\ UNCHANGED <<req, pre, storeVars, userVars, nextId, imageCalls>>

----------------------------------------------------------------------------
(* DELETE /courses/:id *)

\* mutant of DeleteOne: the filter matches any document, the first is deleted
DeleteFirst(id) == IF courses = <<>> THEN courses ELSE Tail(courses)

\* deleteOne({ _id })
DeleteOne(id) == SelectSeq(courses, LAMBDA c : c._id # id)

DeleteCourseStart(p) ==
    \E id \in IdParams :
        /\ Receive(p, [op |-> "deleteCourse", id |-> id], <<>>)
        /\ IF ObjectIdThrows(id) \/ coursesCollection = "undefined"
           THEN Send(p, ServerError)
           ELSE Await(p, "delete_deleteOne", NoLoc)
        /\ UNCHANGED <<storeVars, userVars, courseVars>>

DeleteCourseDeleteOne(p) ==
    /\ pc[p] = "delete_deleteOne"
    /\ IF ~StoreAnswers
       THEN /\ Send(p, ServerError)
            /\ UNCHANGED courses
       ELSE /\ courses' = DeleteOne(req[p].id.n)
            /\ Send(p, Reply(200, "Course deleted successfully!"))
    /\ UNCHANGED <<req, pre, storeVars, userVars, nextId, imageCalls>>

----------------------------------------------------------------------------
(* Specifications *)

Init ==
    /\ runPc = "connect"
    /\ usersCollection = "undefined"
    /\ coursesCollection = "undefined"
    /\ storeReachable \in BOOLEAN
    /\ users = <<>>
    /\ courses = <<>>
    /\ nextId = 1
    /\ imageCalls = 0
    /\ pc = [p \in Slots |-> "idle"]
    /\ req = [p \in Slots |-> NoReq]
    /\ loc = [p \in Slots |-> NoLoc]
    /\ resp = [p \in Slots |-> NoResp]
    /\ pre = [p \in Slots |-> <<>>]

NextAuth ==
    \/ RunConnected
    \/ RunFailed
    \/ StoreLost
    \/ StoreBack
    \/ \E p \in Slots :
        \/ RegisterStart(p, Contended)
        \/ RegisterFindOne(p)
        \/ RegisterInsertOne(p)
        \/ LoginStart(p, Contended)
        \/ LoginFindOne(p)
        \/ GoogleLoginStart(p, Contended)
        \/ GoogleLoginFindOne(p)
        \/ GoogleLoginInsertOne(p)
        \/ Finish(p)

\* the credential service: concurrent requests for one email, store outages
SpecAuth == Init /\ [][NextAuth]_vars

NextCatalog ==
    \/ RunConnected
    \/ RunFailed
    \/ StoreLost
    \/ StoreBack
    \/ \E p \in Slots :
        \/ ListCoursesStart(p)
        \/ ListCoursesFind(p)
        \/ CreateCourseStart(p)
        \/ CreateCourseUploaded(p)
        \/ CreateCourseUploadFailed(p)
        \/ CreateCourseInsertOne(p)
        \/ UpdateCourseStart(p)
        \/ UpdateCourseUpdateOne(p)
        \/ DeleteCourseStart(p)
        \/ DeleteCourseDeleteOne(p)
        \/ Finish(p)

\* the course catalog: concurrent requests, store outages
SpecCatalog == Init /\ [][NextCatalog]_vars

\* no other request is in flight and no response is waiting to be read
OthersIdle(p) == \A q \in Slots \ {p} : pc[q] = "idle"

InitSeq == Init /\ storeReachable

NextSeq ==
    \/ RunConnected
    \/ \E p \in Slots :
        \/ OthersIdle(p) /\ runPc = "done" /\ RegisterStart(p, Emails)
        \/ RegisterFindOne(p)
        \/ RegisterInsertOne(p)
        \/ OthersIdle(p) /\ runPc = "done" /\ LoginStart(p, Emails)
        \/ LoginFindOne(p)
        \/ OthersIdle(p) /\ runPc = "done" /\ GoogleLoginStart(p, Emails)
        \/ GoogleLoginFindOne(p)
        \/ GoogleLoginInsertOne(p)
        \/ Finish(p)

\* the credential service: successive requests, one at a time, after a
\* successful startup connection to a store that stays reachable
SpecSeq == InitSeq /\ [][NextSeq]_vars

NextFault ==
    \/ RunConnected
    \/ RunFailed
    \/ StoreLost
    \/ StoreBack
    \/ \E p \in Slots :
        \/ OthersIdle(p) /\ RegisterStart(p, Contended)
        \/ RegisterFindOne(p)
        \/ RegisterInsertOne(p)
        \/ OthersIdle(p) /\ LoginStart(p, Contended)
        \/ LoginFindOne(p)
        \/ OthersIdle(p) /\ GoogleLoginStart(p, Contended)
        \/ GoogleLoginFindOne(p)
        \/ GoogleLoginInsertOne(p)
        \/ OthersIdle(p) /\ ListCoursesStart(p)
        \/ ListCoursesFind(p)
        \/ OthersIdle(p) /\ CreateCourseStart(p)
        \/ CreateCourseUploaded(p)
        \/ CreateCourseUploadFailed(p)
        \/ CreateCourseInsertOne(p)
        \/ OthersIdle(p) /\ UpdateCourseStart(p)
        \/ UpdateCourseUpdateOne(p)
        \/ OthersIdle(p) /\ DeleteCourseStart(p)
        \/ DeleteCourseDeleteOne(p)
        \/ Finish(p)

\* the whole server: all seven handlers, one request at a time, with startup
\* before, during or after the requests and store outages at any moment
SpecFault == Init /\ [][NextFault]_vars

\* the whole server with its requests concurrent; the specifications above are
\* the parts of it the properties below are checked on
Next ==
    \/ RunConnected
    \/ RunFailed
    \/ StoreLost
    \/ StoreBack
    \/ \E p \in Slots :
        \/ RegisterStart(p, Emails)
        \/ RegisterFindOne(p)
        \/ RegisterInsertOne(p)
        \/ LoginStart(p, Emails)
        \/ LoginFindOne(p)
        \/ GoogleLoginStart(p, Emails)
        \/ GoogleLoginFindOne(p)
        \/ GoogleLoginInsertOne(p)
        \/ ListCoursesStart(p)
        \/ ListCoursesFind(p)
        \/ CreateCourseStart(p)
        \/ CreateCourseUploaded(p)
        \/ CreateCourseUploadFailed(p)
        \/ CreateCourseInsertOne(p)
        \/ UpdateCourseStart(p)
        \/ UpdateCourseUpdateOne(p)
        \/ DeleteCourseStart(p)
        \/ DeleteCourseDeleteOne(p)
        \/ Finish(p)

Spec == Init /\ [][Next]_vars

----------------------------------------------------------------------------
(* Properties *)

\* the slot p takes this step
Step(p) == pc'[p] # pc[p]
\* the slot p receives a request for operation op in this step
Starts(p, op) == pc[p] = "idle" /\ pc'[p] # "idle" /\ req'[p].op = op
\* the slot p has answered a request for operation op
Answered(p, op) == pc[p] = "done" /\ req[p].op = op

\* the documents of a snapshot that carry the email
WithEmail(snapshot, email) ==
    {i \in 1..Len(snapshot) : snapshot[i].email = email}

\* C1: in every reachable state of the users collection, also under
\* interleaved concurrent register and googleLogin requests, there is at most
\* one user document per email.
C1_OneUserPerEmail ==
    \A i, j \in 1..Len(users) : users[i].email = users[j].email => i = j

\* C2: once register(email, password) has succeeded (its document is in the
\* collection when the login arrives), a login for that email that the store
\* answers succeeds with a token when its password is the registered one and
\* fails with 400 "Incorrect password." when it is another one.
C2_LoginMatchesRegistration ==
    \A p \in Slots :
        (Answered(p, "login") /\ req[p].password.t = "string"
            /\ resp[p].status # 500) =>
        \A i \in WithEmail(pre[p], req[p].email) :
            HasPassword(pre[p][i]) =>
                IF pre[p][i].password.of = req[p].password.v
                THEN resp[p] = [status |-> 200, message |-> "Login successful!",
                                token |-> Sign(req[p].email)]
                ELSE resp[p] = [status |-> 400, message |-> "Incorrect password.",
                                token |-> NoToken]

\* C3: of two successive register calls with the same email and passwords that
\* meet the policy, the first (no document of that email yet) is answered 201
\* with a token and stores one document with the hash of its password, the
\* second (a document exists) is answered 400 "User already exists" and leaves
\* the users collection as it was.
C3_RegisterTwice ==
    \A p \in Slots :
        (Answered(p, "register") /\ req[p].password.t = "string"
            /\ TestUpper(req[p].password) /\ TestLower(req[p].password)
            /\ Len(req[p].password.v) >= 6) =>
        IF WithEmail(pre[p], req[p].email) = {}
        THEN /\ resp[p].status = 201
             /\ resp[p].message = "Registration successful!"
             /\ resp[p].token.payload.email = req[p].email
             /\ Len(users) = Len(pre[p]) + 1
             /\ SubSeq(users, 1, Len(pre[p])) = pre[p]
             /\ users[Len(users)].email = req[p].email
             /\ HasPassword(users[Len(users)])
             /\ users[Len(users)].password.of = req[p].password.v
        ELSE /\ resp[p].status = 400
             /\ resp[p].message = "User already exists. Please log in."
             /\ resp[p].token = NoToken
             /\ users = pre[p]

\* C3 witness: a register was answered "User already exists" for an email whose
\* document an earlier register stored
C3_Witness ==
    \E p \in Slots :
        /\ Answered(p, "register")
        /\ resp[p].status = 400
        /\ resp[p].message = "User already exists. Please log in."
        /\ \E i \in WithEmail(pre[p], req[p].email) : HasPassword(pre[p][i])
        /\ Len(users) = 2

\* C4: googleLogin is an upsert by email: for an email without a document it
\* stores exactly one, marked fromGoogle and without a password; for an email
\* with a document (of register or of googleLogin) it leaves the users
\* collection as it was; the token it returns carries the input email.
C4_GoogleLoginUpsert ==
    \A p \in Slots :
        Answered(p, "googleLogin") =>
            /\ resp[p].status = 200
            /\ resp[p].token.payload.email = req[p].email
            /\ Cardinality(WithEmail(users, req[p].email)) = 1
            /\ IF WithEmail(pre[p], req[p].email) = {}
               THEN /\ Len(users) = Len(pre[p]) + 1
                    /\ SubSeq(users, 1, Len(pre[p])) = pre[p]
                    /\ users[Len(users)] =
                         [name |-> req[p].name, email |-> req[p].email,
                          photoURL |-> req[p].photoURL, fromGoogle |-> TRUE]
               ELSE users = pre[p]

\* C4 witness: a second googleLogin for an email the first one provisioned
C4_Witness ==
    \E p \in Slots :
        /\ Answered(p, "googleLogin")
        /\ \E i \in WithEmail(pre[p], req[p].email) :
              ~HasPassword(pre[p][i]) /\ pre[p][i].fromGoogle
        /\ users = pre[p]
        /\ resp[p].token.payload.email = req[p].email

\* C5: createCourse with one of the six required inputs absent is answered 400
\* "All fields are required!" at once, writes nothing to the courses collection
\* and sends nothing to the image host.
C5_MissingFieldRejected ==
    [][\A p \in Slots :
        (Starts(p, "createCourse")
            /\ \E f \in Required : f \notin DOMAIN req'[p].body) =>
        /\ pc'[p] = "done"
        /\ resp'[p].status = 400
        /\ resp'[p].message = "All fields are required!"
        /\ courses' = courses
        /\ nextId' = nextId
        /\ imageCalls' = imageCalls]_vars

\* C5 witness: a createCourse without price was answered 400 with a course in
\* the catalog and the image host used once
C5_Witness ==
    \E p \in Slots :
        /\ Answered(p, "createCourse")
        /\ "price" \notin DOMAIN req[p].body
        /\ resp[p].status = 400
        /\ Len(courses) = 1
        /\ imageCalls = 1

\* C6: updateCourse(id, fields) changes nothing in the courses collection but
\* the listed fields of the document with that id: its other fields and all
\* other documents stay, no document is created, and without a document of
\* that id the answer is still 200 and the collection is as it was.
C6_UpdateFrame ==
    [][\A p \in Slots :
        /\ Starts(p, "updateCourse") => courses' = courses
        /\ (pc[p] = "update_updateOne" /\ Step(p)) =>
            /\ Len(courses') = Len(courses)
            /\ storeReachable =>
                 /\ resp'[p].status = 200
                 /\ resp'[p].message = "Course updated successfully!"
            /\ ~storeReachable => courses' = courses
            /\ \A i \in 1..Len(courses) :
                 IF courses[i]._id = req[p].id.n /\ storeReachable
                 THEN /\ DOMAIN courses'[i] =
                            DOMAIN courses[i] \cup DOMAIN req[p].body
                      /\ \A f \in DOMAIN req[p].body :
                            courses'[i][f] = req[p].body[f]
                      /\ \A f \in DOMAIN courses[i] \ DOMAIN req[p].body :
                            courses'[i][f] = courses[i][f]
                 ELSE courses'[i] = courses[i]]_vars

\* C6 witness: an update with fields was answered 200, the document of its id
\* carries them and the other document does not
C6_Witness ==
    \E p \in Slots :
        /\ Answered(p, "updateCourse")
        /\ resp[p].status = 200
        /\ req[p].body # <<>>
        /\ Len(courses) = 2
        /\ \E i, j \in 1..2 :
            /\ courses[i]._id = req[p].id.n
            /\ courses[i].price = Num(20)
            /\ courses[i].title = Str("T")
            /\ courses[j].price = Num(10)

\* C7: deleteCourse(id) removes the document with that id and no other, keeps
\* the others as they are and in order, and is answered 200; with no document
\* of that id (a second delete) it changes nothing and is still answered 200.
C7_DeleteFrame ==
    [][\A p \in Slots :
        /\ Starts(p, "deleteCourse") => courses' = courses
        /\ (pc[p] = "delete_deleteOne" /\ Step(p)) =>
            LET keep == {i \in 1..Len(courses) : courses[i]._id # req[p].id.n}
            IN  IF storeReachable
                THEN /\ resp'[p].status = 200
                     /\ resp'[p].message = "Course deleted successfully!"
                     /\ Len(courses') = Cardinality(keep)
                     /\ \A i \in keep :
                          courses'[Cardinality({j \in keep : j <= i})] = courses[i]
                ELSE courses' = courses]_vars

\* C7 witness: a delete was answered 200 for an identifier the store had
\* assigned and that no document carries any more, beside a document that stays
C7_Witness ==
    \E p \in Slots :
        /\ Answered(p, "deleteCourse")
        /\ resp[p].status = 200
        /\ req[p].id.n < nextId
        /\ \A i \in 1..Len(courses) : courses[i]._id # req[p].id.n
        /\ Len(courses) = 1

\* the answer C8 asks of a listCourses whose query is q
ListedWhenSupplied(q) ==
    IF "category" \in DOMAIN q
    THEN SelectSeq(courses, LAMBDA c : c.category = q.category)
    ELSE courses

\* C8 as stated: with a category filter supplied, the empty string included,
\* listCourses returns the documents whose category equals it, with none all
\* documents, and it never changes the courses collection.
C8_ListAsStated ==
    [][\A p \in Slots :
        /\ Starts(p, "listCourses") => courses' = courses
        /\ (pc[p] = "list_find" /\ Step(p)) =>
            /\ courses' = courses
            /\ storeReachable =>
                 resp'[p] = [status |-> 200,
                             body |-> ListedWhenSupplied(req[p].query)]]_vars

\* the answer of a listCourses whose query is q, the empty filter being none
ListedWhenNonEmpty(q) ==
    IF "category" \in DOMAIN q /\ q.category # Str("")
    THEN SelectSeq(courses, LAMBDA c : c.category = q.category)
    ELSE courses

\* C8 amended: with a non-empty category filter listCourses returns the
\* documents whose category equals it; with no filter or the empty string as
\* the filter it returns all documents; it never changes the collection.
C8_ListNonEmptyFilter ==
    [][\A p \in Slots :
        /\ Starts(p, "listCourses") => courses' = courses
        /\ (pc[p] = "list_find" /\ Step(p)) =>
            /\ courses' = courses
            /\ storeReachable =>
                 resp'[p] = [status |-> 200,
                             body |-> ListedWhenNonEmpty(req[p].query)]]_vars

\* C8 witness: a list filtered by "math" answered the math course alone while
\* the catalog holds a course of another category
C8_Witness ==
    \E p \in Slots :
        /\ Answered(p, "listCourses")
        /\ req[p].query = [category |-> Str("math")]
        /\ resp[p].status = 200
        /\ Len(resp[p].body) = 1
        /\ resp[p].body[1].category = Str("math")
        /\ Len(courses) = 2
        /\ \E i \in 1..2 : courses[i].category = Str("art")

\* C9 as stated: whatever the body, a request handled while the handles are
\* unassigned or the store is unreachable is answered 500.
C9_AlwaysServerError ==
    [][\A p \in Slots :
        (pc[p] = "idle" /\ pc'[p] = "done"
            /\ (usersCollection = "undefined" \/ ~storeReachable)) =>
        resp'[p].status = 500]_vars

\* the request is turned down before the handler reaches for the store
FailsValidation(r) ==
    \/ r.op = "register" /\ PasswordPolicy(r.password) # "ok"
    \/ r.op = "createCourse" /\ \E f \in Required : ~Truthy(Field(r.body, f))

\* the awaits of store calls
StoreCalls ==
    {"register_findOne", "register_insertOne", "login_findOne",
     "google_findOne", "google_insertOne", "list_find", "create_insertOne",
     "update_updateOne", "delete_deleteOne"}

\* C9 amended: a request that fails the handler's own validation (password
\* policy, six course fields) is answered 400 without the store, whatever its
\* state; every other request is answered 500 when the handler reaches for a
\* collection handle that is unassigned, and 500 with both collections
\* untouched when a store call of it ends while the store is unreachable.
C9_FailsClosedPastValidation ==
    [][\A p \in Slots :
        /\ (pc[p] = "idle" /\ pc'[p] # "idle" /\ FailsValidation(req'[p])) =>
             pc'[p] = "done" /\ resp'[p].status = 400
        /\ (pc[p] = "idle" /\ pc'[p] # "idle" /\ ~FailsValidation(req'[p])
              /\ req'[p].op # "createCourse"
              /\ usersCollection = "undefined") =>
             pc'[p] = "done" /\ resp'[p].status = 500
        /\ (pc[p] = "create_upload" /\ Step(p)
              /\ coursesCollection = "undefined") =>
             pc'[p] = "done" /\ resp'[p].status = 500
        /\ (pc[p] \in StoreCalls /\ Step(p) /\ ~storeReachable) =>
             /\ pc'[p] = "done"
             /\ resp'[p].status = 500
             /\ users' = users
             /\ courses' = courses]_vars

\* C9 witness: a register with a password that meets the policy was answered
\* 500 before the startup connection had assigned the handles
C9_Witness ==
    \E p \in Slots :
        /\ Answered(p, "register")
        /\ PasswordPolicy(req[p].password) = "ok"
        /\ usersCollection = "undefined"
        /\ runPc = "connect"
        /\ resp[p].status = 500

\* C10: for an email with a document provisioned by googleLogin (no password
\* field) a login is answered 500 without a token whatever the password, and a
\* register is turned down, so the password path never authenticates it.
C10_NoPasswordLoginForGoogleEmail ==
    \A p \in Slots :
        (pc[p] = "done"
            /\ \E i \in WithEmail(pre[p], req[p].email) : ~HasPassword(pre[p][i])) =>
        /\ req[p].op = "login" =>
             resp[p].status = 500 /\ resp[p].token = NoToken
        /\ req[p].op = "register" =>
             resp[p].status \in {400, 500} /\ resp[p].token = NoToken

====
